---- MODULE Spec2Model ----
(***************************************************************************)
(* Model of src/common/history.c (darktable): the history stack of an      *)
(* image in main.history, its masks in main.mask, its history_end marker   *)
(* in main.images, the shared scratch table memory.style_items, and the    *)
(* operations dt_history_copy_and_paste_on_image, _on_selection,           *)
(* dt_history_delete_on_image, _on_selection and dt_history_load_and_apply.*)
(*                                                                         *)
(* A table is a sequence of rows in rowid order.  main.history and         *)
(* main.mask are kept per image (the code always filters on imgid).        *)
(* dev is darktable.develop, the darkroom's copy of the history of the     *)
(* image it edits; job and del are the positions of the two threads of     *)
(* SpecLoad.  Where one thread runs, a call is one action: every SQL       *)
(* statement of the handler, in order.                                     *)
(* The code never opens a transaction and never looks at the result of     *)
(* sqlite3_step for a writing statement, so a statement that fails is a    *)
(* statement without effect, after which the handler carries on.           *)
(***************************************************************************)
EXTENDS Integers, Sequences, FiniteSets, TLC

VARIABLES history, mask, history_end, style_items, wlock, dev, job, del, last

vars == <<history, mask, history_end, style_items, wlock, dev, job, del, last>>

(***************************************************************************)
(* Bounds of the model.                                                    *)
(***************************************************************************)
MaxInitLen == 2      \* longest history of one image in an initial store
MaxInitTotal == 3    \* history rows of all images together in an initial store
MaxSeqCalls == 2     \* calls in one behaviour of SpecSeq
MaxHist == 4         \* SpecSeq: longest history a call may build
MaxSeqTotal == 1     \* SpecSeq: history rows of images 1 and 2 in an initial store
MaxFailTotal == 2    \* SpecFail: history rows of images 1 and 2 in an initial store
MaxDevTotal == 2     \* Spec: the same, in an initial store with the darkroom open
MaxSeqDevTotal == 0  \* SpecSeq: the same
MaxOrderDevTotal == 1 \* SpecOrder: the same

Items == {1, 2, 3}

(***************************************************************************)
(* darktable.iop: the catalog of modules and their flags.                  *)
(* strcmp / ORDER BY operation order of the names is IopOrder.             *)
(***************************************************************************)
IopOrder == <<"blur", "colorin">>

Iop == {IopOrder[k] : k \in DOMAIN IopOrder}

IopOneInstance == {"colorin"}

Labels == {"0", "soft"}

\* SQL NULL, as stored by line 563 when MAX(num) ranges over no row.
NULL == -1000

\* imgid of "nothing copied yet" (line 413).
NoImage == -1

----------------------------------------------------------------------------
(***************************************************************************)
(* SQL aggregates and the catalog lookup.                                  *)
(***************************************************************************)
RECURSIVE SetMax(_)
SetMax(S) ==
  IF S = {} THEN NULL
  ELSE LET x == CHOOSE y \in S : TRUE
           m == SetMax(S \ {x})
       IN IF m = NULL \/ x > m THEN x ELSE m

IfNull(x, d) == IF x = NULL THEN d ELSE x

\* position of an operation name in strcmp order
OpRank(op) == CHOOSE k \in DOMAIN IopOrder : IopOrder[k] = op

\* the flag test dropped: every module may have several instances
IsOneInstanceNever(op) == FALSE

\* lines 88-98, 177-187, 237-247: the lookup in darktable.iop and the flag test
IsOneInstance(op) == op \in Iop /\ op \in IopOneInstance

----------------------------------------------------------------------------
(***************************************************************************)
(* _dt_history_cleanup_multi_instance (lines 54-160), on memory.style_items *)
(***************************************************************************)
\* ORDER BY operation, multi_priority over row indices; rows with equal keys
\* stay in rowid order.
\* ORDER BY operation, multi_priority DESC: the highest instance comes first
KeyLessDescending(si, a, b) ==
  \/ OpRank(si[a].operation) < OpRank(si[b].operation)
  \/ /\ si[a].operation = si[b].operation
     /\ \/ si[a].multi_priority > si[b].multi_priority
        \/ si[a].multi_priority = si[b].multi_priority /\ a < b

KeyLess(si, a, b) ==
  \/ OpRank(si[a].operation) < OpRank(si[b].operation)
  \/ /\ si[a].operation = si[b].operation
     /\ \/ si[a].multi_priority < si[b].multi_priority
        \/ si[a].multi_priority = si[b].multi_priority /\ a < b

RECURSIVE SortIdx(_, _)
SortIdx(si, S) ==
  IF S = {} THEN <<>>
  ELSE LET m == CHOOSE a \in S : \A b \in S \ {a} : KeyLess(si, a, b)
       IN <<m>> \o SortIdx(si, S \ {m})

\* lines 78-112: the rows loaded into hitems (single-instance modules skipped)
LoadHitems(si) ==
  LET idx == SortIdx(si, {k \in DOMAIN si : ~IsOneInstance(si[k].operation)})
  IN [k \in DOMAIN idx |->
        [num |-> si[idx[k]].num, op |-> si[idx[k]].operation,
         mi |-> si[idx[k]].multi_priority, new_mi |-> -5]]

\* lines 114-131: c_mi restarts at 0 when the operation changes
RECURSIVE Renumber(_, _, _, _)
Renumber(hitems, k, op, c_mi) ==
  IF k > Len(hitems) THEN <<>>
  ELSE LET hi == hitems[k]
           c  == IF hi.op # op THEN 0 ELSE c_mi
       IN <<[hi EXCEPT !.new_mi = c]>> \o Renumber(hitems, k + 1, hi.op, c + 1)

\* lines 140-156: UPDATE ... SET multi_priority = CASE num WHEN .. THEN .. END
CaseNum(whens, num, old) ==
  IF \E k \in DOMAIN whens : whens[k].num = num
  THEN whens[CHOOSE k \in DOMAIN whens :
               /\ whens[k].num = num
               /\ \A j \in 1..(k - 1) : whens[j].num # num].new_mi
  ELSE old

\* lines 114-131: nb_change, the number of loaded rows whose number changes
NbChange(si) ==
  LET hitems == Renumber(LoadHitems(si), 1, "", 0)
  IN Cardinality({k \in DOMAIN hitems : hitems[k].mi # hitems[k].new_mi})

CleanupMultiInstance(si, updateFails) ==
  LET hitems == Renumber(LoadHitems(si), 1, "", 0)
      whens == SelectSeq(hitems, LAMBDA hi : hi.mi # hi.new_mi)
  IN IF NbChange(si) = 0 \/ updateFails THEN si
     ELSE [k \in DOMAIN si |->
             [si[k] EXCEPT !.multi_priority = CaseNum(whens, si[k].num, @)]]

----------------------------------------------------------------------------
(***************************************************************************)
(* _history_rebuild_multi_priority_append (lines 162-205): Phase A.        *)
(***************************************************************************)
\* SELECT MAX(multi_priority) FROM memory.style_items WHERE operation = op
MaxStylePriority(si, op) ==
  SetMax({si[k].multi_priority : k \in {j \in DOMAIN si : si[j].operation = op}})

\* SELECT DISTINCT operation FROM memory.style_items
StyleOperations(si) == {si[k].operation : k \in DOMAIN si}

\* the shift by MAX(multi_priority) without the + 1
RebuildMultiPriorityAppendByMax(h, si) ==
  [k \in DOMAIN h |->
     IF h[k].operation \in StyleOperations(si) /\ ~IsOneInstance(h[k].operation)
     THEN [h[k] EXCEPT !.multi_priority =
                         @ + IfNull(MaxStylePriority(si, h[k].operation), 0)]
     ELSE h[k]]

\* Phase A left out: the destination keeps its numbers
RebuildMultiPriorityAppendNone(h, si) == h

\* the shift without the flag test: rows of single-instance modules move too
RebuildMultiPriorityAppendEvery(h, si) ==
  [k \in DOMAIN h |->
     IF h[k].operation \in StyleOperations(si)
     THEN [h[k] EXCEPT !.multi_priority =
                         @ + IfNull(MaxStylePriority(si, h[k].operation), -1) + 1]
     ELSE h[k]]

\* lines 172-203: one UPDATE per staged operation that is not single-instance;
\* each UPDATE touches only the rows of its own operation.
RebuildMultiPriorityAppend(h, si) ==
  [k \in DOMAIN h |->
     IF h[k].operation \in StyleOperations(si) /\ ~IsOneInstance(h[k].operation)
     THEN [h[k] EXCEPT !.multi_priority =
                         @ + IfNull(MaxStylePriority(si, h[k].operation), -1) + 1]
     ELSE h[k]]

----------------------------------------------------------------------------
(***************************************************************************)
(* dt_history_rebuild_multi_priority_merge (lines 207-327): Phase B.       *)
(***************************************************************************)
\* the row of a (operation, multi_priority) group that supplies MAX(num) and
\* the bare column multi_name
GroupTop(h, op, mp) ==
  LET G == {k \in DOMAIN h : h[k].operation = op /\ h[k].multi_priority = mp}
  IN h[CHOOSE k \in G : \A j \in G : h[j].num < h[k].num \/ (h[j].num = h[k].num /\ k <= j)]

\* lines 219-226: the groups of the destination whose operation is staged,
\* ORDER BY operation, multi_priority.  The result is sorted before the first
\* row is returned, so the loop's UPDATEs do not change it.
RECURSIVE SortGroups(_)
SortGroups(G) ==
  IF G = {} THEN <<>>
  ELSE LET m == CHOOSE a \in G : \A b \in G \ {a} :
                   \/ OpRank(a[1]) < OpRank(b[1])
                   \/ a[1] = b[1] /\ a[2] < b[2]
       IN <<m>> \o SortGroups(G \ {m})

MergeGroups(h, si) ==
  LET G == {<<h[k].operation, h[k].multi_priority>> :
              k \in {j \in DOMAIN h : h[j].operation \in StyleOperations(si)}}
      s == SortGroups(G)
  IN [k \in DOMAIN s |->
        [operation |-> s[k][1], multi_priority |-> s[k][2],
         multi_name |-> GroupTop(h, s[k][1], s[k][2]).multi_name]]

\* the lookup without "AND num >= 0": a staged row can be matched twice
FindStyleItemAgain(si, op, name) ==
  LET C == {k \in DOMAIN si : si[k].operation = op /\ si[k].multi_name = name}
  IN IF C = {} THEN 0 ELSE CHOOSE k \in C : \A j \in C : k <= j

\* lines 271-282: the first staged row (rowid order) with this operation and
\* multi_name whose num is still >= 0; 0 when there is none
FindStyleItem(si, op, name) ==
  LET C == {k \in DOMAIN si : si[k].operation = op /\ si[k].multi_name = name
                               /\ si[k].num >= 0}
  IN IF C = {} THEN 0 ELSE CHOOSE k \in C : \A j \in C : k <= j

\* lines 288-297, 314-323: UPDATE main.history SET multi_priority = new
\* WHERE imgid = dest AND operation = op AND multi_priority = old
UpdatePriority(h, op, old, new) ==
  [k \in DOMAIN h |->
     IF h[k].operation = op /\ h[k].multi_priority = old
     THEN [h[k] EXCEPT !.multi_priority = new] ELSE h[k]]

\* the flag left out: the staged row stays as it is
FlagUsedNever(si, num_new) == si

\* lines 300-305: UPDATE memory.style_items SET num = -1 WHERE num = num_new
FlagUsed(si, num_new) ==
  [k \in DOMAIN si |-> IF si[k].num = num_new THEN [si[k] EXCEPT !.num = -1] ELSE si[k]]

\* one iteration of the while loop (lines 228-325) on the group g.
\* m = [h, si, operation_prev, multi_priority_next, log]; log keeps, for each
\* group handled, what the loop decided and the destination's rows after it.
MergeStep(m, g, updateFails) ==
  IF IsOneInstance(g.operation) THEN m
  ELSE
    LET next0 == IF g.operation # m.operation_prev
                 THEN IfNull(MaxStylePriority(m.si, g.operation), 0)
                 ELSE m.multi_priority_next
        found == FindStyleItem(m.si, g.operation, g.multi_name)
        multi_priority_new == IF found = 0 THEN -1 ELSE m.si[found].multi_priority
        num_new == IF found = 0 THEN -1 ELSE m.si[found].num
        target == IF multi_priority_new >= 0 THEN multi_priority_new ELSE next0 + 1
        h2 == IF updateFails THEN m.h
              ELSE UpdatePriority(m.h, g.operation, g.multi_priority, target)
    IN [h |-> h2,
        si |-> IF multi_priority_new >= 0 THEN FlagUsed(m.si, num_new) ELSE m.si,
        operation_prev |-> g.operation,
        multi_priority_next |-> IF multi_priority_new >= 0 THEN next0 ELSE next0 + 1,
        log |-> Append(m.log, [operation |-> g.operation, old |-> g.multi_priority,
                               multi_name |-> g.multi_name,
                               matched |-> IF multi_priority_new >= 0 THEN found ELSE 0,
                               new |-> target, h |-> h2])]

RECURSIVE MergeLoop(_, _, _, _)
MergeLoop(m, groups, k, updateFails) ==
  IF k > Len(groups) THEN m
  ELSE MergeLoop(MergeStep(m, groups[k], updateFails), groups, k + 1, updateFails)

\* the whole function: Phase A, then the loop over the groups read after it
RebuildMultiPriorityMerge(h, si, shiftFails, updateFails) ==
  LET shifted == IF shiftFails THEN h ELSE RebuildMultiPriorityAppend(h, si)
      m0 == [h |-> shifted, si |-> si, operation_prev |-> "",
             multi_priority_next |-> -1, log |-> <<>>]
      m  == MergeLoop(m0, MergeGroups(shifted, si), 1, updateFails)
  IN [h |-> m.h, si |-> m.si, shifted |-> shifted, log |-> m.log]

----------------------------------------------------------------------------
(***************************************************************************)
(* darktable.develop.  dev.imgid is the image the darkroom edits, 0 when   *)
(* the current view is not the darkroom; dev.pending holds the items of    *)
(* its history stack that are not yet in main.history.                     *)
(***************************************************************************)
NoDev == [imgid |-> 0, pending |-> <<>>]

\* dt_dev_write_history, called at line 420 ("be sure the current history is
\* written before pasting some other history data").  Its body is not in
\* history.c; taken here as: the items not yet written become rows of
\* main.history of the edited image and history_end is the length of its
\* stack; with nothing pending the tables already hold the stack.  The
\* statements of history.c run on whatever tables this call leaves.
DevWriteHistory(st) ==
  IF st.dev.pending = <<>> THEN st
  ELSE [st EXCEPT !.history[st.dev.imgid] = @ \o st.dev.pending,
                  !.history_end[st.dev.imgid] =
                     st.dev.pending[Len(st.dev.pending)].num + 1,
                  !.dev.pending = <<>>]

\* dt_dev_reload_history_items: the darkroom's stack is read again from
\* main.history, what was not written is gone
DevReloadHistoryItems(d) == [d EXCEPT !.pending = <<>>]

\* lines 419-421: in the darkroom the current history is written first
WriteCurrentHistory(st) ==
  IF st.dev.imgid # 0 THEN DevWriteHistory(st) ELSE st

\* lines 351, 385, 571-575: if(dt_dev_is_current_image(darktable.develop, imgid))
\* dt_dev_reload_history_items(darktable.develop)
ReloadIfCurrent(d, imgid) ==
  IF d.imgid = imgid THEN DevReloadHistoryItems(d) ELSE d

----------------------------------------------------------------------------
(***************************************************************************)
(* dt_history_copy_and_paste_on_image (lines 408-588).                     *)
(* st = [history, mask, history_end, style_items, dev] is the store.       *)
(* fail names the statement whose sqlite3_step fails ("none": no failure). *)
(***************************************************************************)
FailSteps == {"trim", "offs", "clear", "stage", "normalize", "shift", "reconcile",
              "append", "delmask", "copymask", "end"}

\* the DELETE left out: the rows above history_end stay
TrimHistoryNever(h, he) == h

\* lines 429-434: DELETE ... WHERE num >= (SELECT history_end ...); a NULL
\* history_end compares as unknown and deletes nothing
TrimHistory(h, he) ==
  IF he = NULL THEN h ELSE SelectSeq(h, LAMBDA r : ~(r.num >= he))

\* the offset without the + 1: the first copied row lands on the last kept one
HistoryOffsetOnTop(h) == IfNull(SetMax({h[k].num : k \in DOMAIN h}), 0)

\* lines 436-440: SELECT IFNULL(MAX(num), -1) + 1
HistoryOffset(h) == IfNull(SetMax({h[k].num : k \in DOMAIN h}), -1) + 1

\* ORDER BY max_num of the rows picked per group
RECURSIVE SortByNum(_)
SortByNum(R) ==
  IF R = {} THEN <<>>
  ELSE LET m == CHOOSE a \in R : \A b \in R \ {a} :
                   \/ a.num < b.num
                   \/ /\ a.num = b.num
                      /\ \/ OpRank(a.operation) < OpRank(b.operation)
                         \/ a.operation = b.operation /\ a.multi_priority < b.multi_priority
       IN <<m>> \o SortByNum(R \ {m})

\* lines 458-474: the last entry of every (operation, multi_priority)
SelectLastEntries(h) ==
  SortByNum({GroupTop(h, h[k].operation, h[k].multi_priority) : k \in DOMAIN h})

\* lines 475-510: all rows, or the rows whose num is in ops, in rowid order
SelectEntries(h, ops) ==
  IF ops = {} THEN h ELSE SelectSeq(h, LAMBDA r : r.num \in ops)

\* the DELETE left out: the rows of earlier calls stay in the table
ClearStyleItemsNever(si) == si

\* line 453: DELETE FROM memory.style_items
ClearStyleItems(si) == <<>>

\* the staging without the collapsed query: every row is taken
StageItemsUncollapsed(h, merge, ops) == SelectEntries(h, ops)

\* lines 458-510
StageItems(h, merge, ops) ==
  IF merge /\ ops = {} THEN SelectLastEntries(h) ELSE SelectEntries(h, ops)

\* the insert with num = ?2 + rowid: rowid starts at 1, num has to start at 0
AppendStyleItemsAtRowid(h, si, offs) ==
  h \o [k \in DOMAIN si |-> [si[k] EXCEPT !.num = offs + k]]

\* lines 520-530: INSERT INTO main.history ... ?2 + rowid - 1 ... FROM memory.style_items
AppendStyleItems(h, si, offs) ==
  h \o [k \in DOMAIN si |-> [si[k] EXCEPT !.num = offs + k - 1]]

\* lines 562-568: history_end = (SELECT MAX(num) + 1 ...), NULL over no row
HistoryEnd(h) ==
  LET m == SetMax({h[k].num : k \in DOMAIN h}) IN IF m = NULL THEN NULL ELSE m + 1

\* the early returns without the test imgid == dest_imgid
RejectedCopyNoImageOnly(imgid, dest_imgid) == imgid = NoImage

\* lines 411-417: the two early returns
RejectedCopy(imgid, dest_imgid) == imgid = dest_imgid \/ imgid = NoImage

\* lines 518-568: the staged rows go in, the masks follow, history_end is set
PasteStaged(st, imgid, dest_imgid, merge, fail, offs, staged, normalized, rb) ==
  LET h2 == IF fail = "append" THEN rb.h ELSE AppendStyleItems(rb.h, rb.si, offs)
      \* lines 534-548
      m1 == IF merge \/ fail = "delmask" THEN st.mask[dest_imgid] ELSE <<>>
      \* lines 551-559
      m2 == IF fail = "copymask" THEN m1
            ELSE m1 \o [st.mask EXCEPT ![dest_imgid] = m1][imgid]
  IN [st |-> [history |-> [st.history EXCEPT ![dest_imgid] = h2],
              mask |-> [st.mask EXCEPT ![dest_imgid] = m2],
              \* lines 562-568
              history_end |-> [st.history_end EXCEPT ![dest_imgid] =
                                 IF fail = "end" THEN @ ELSE HistoryEnd(h2)],
              style_items |-> rb.si,
              \* lines 571-575
              dev |-> ReloadIfCurrent(st.dev, dest_imgid)],
      ret |-> 0, staged |-> staged, normalized |-> normalized,
      shifted |-> rb.shifted, log |-> rb.log, offs |-> offs]

\* lines 512-516: the staged rows are normalized and the destination's
\* instances reconciled with them, when merging
MergeStaged(st, imgid, dest_imgid, merge, fail, h1, offs, staged, normalized) ==
  PasteStaged(st, imgid, dest_imgid, merge, fail, offs, staged, normalized,
              IF merge
              THEN RebuildMultiPriorityMerge(h1, normalized, fail = "shift", fail = "reconcile")
              ELSE [h |-> h1, si |-> normalized, shifted |-> h1, log |-> <<>>])

\* lines 436-510: the offset, then memory.style_items is cleared and filled
StageOnTrimmed(st, imgid, dest_imgid, merge, ops, fail, h1, staged) ==
  MergeStaged(st, imgid, dest_imgid, merge, fail, h1,
              IF merge /\ fail # "offs" THEN HistoryOffset(h1) ELSE 0,
              staged,
              IF merge THEN CleanupMultiInstance(staged, fail = "normalize") ELSE staged)

\* lines 425-510: the destination is trimmed (merge) or emptied (replace);
\* the rows to copy are read from the store as it is after that
TrimAndStage(st, imgid, dest_imgid, merge, ops, fail, h1) ==
  StageOnTrimmed(st, imgid, dest_imgid, merge, ops, fail, h1,
                 (IF fail = "clear" THEN st.style_items
                  ELSE ClearStyleItems(st.style_items))
                 \o (IF fail = "stage" THEN <<>>
                     ELSE StageItems([st.history EXCEPT ![dest_imgid] = h1][imgid],
                                     merge, ops)))

\* lines 423-588 on the store st as the write of lines 419-421 left it
PasteOnWritten(st, imgid, dest_imgid, merge, ops, fail) ==
  TrimAndStage(st, imgid, dest_imgid, merge, ops, fail,
               IF fail = "trim" THEN st.history[dest_imgid]
               ELSE IF merge
                    THEN TrimHistory(st.history[dest_imgid], st.history_end[dest_imgid])
                    ELSE <<>>)

CopyAndPasteOnImage(st, imgid, dest_imgid, merge, ops, fail) ==
  IF RejectedCopy(imgid, dest_imgid)
  THEN [st |-> st, ret |-> 1, staged |-> <<>>, normalized |-> <<>>,
        shifted |-> <<>>, log |-> <<>>, offs |-> 0]
  ELSE PasteOnWritten(WriteCurrentHistory(st), imgid, dest_imgid, merge, ops, fail)

----------------------------------------------------------------------------
(***************************************************************************)
(* dt_history_delete_on_image (lines 329-360) and                          *)
(* dt_history_delete_on_selection (lines 362-374).                         *)
(***************************************************************************)
\* the three statements, one by one
DeleteHistoryRows(st, imgid) == [st EXCEPT !.history[imgid] = <<>>]

ResetHistoryEnd(st, imgid) == [st EXCEPT !.history_end[imgid] = 0]

DeleteMaskRows(st, imgid) == [st EXCEPT !.mask[imgid] = <<>>]

\* the first statement alone: the masks and history_end are left behind
DeleteStatementsHistoryOnly(st, imgid) == DeleteHistoryRows(st, imgid)

\* lines 331-346
DeleteStatements(st, imgid) ==
  DeleteMaskRows(ResetHistoryEnd(DeleteHistoryRows(st, imgid), imgid), imgid)

\* lines 348-351 on the store st the statements left: remove_preset_flag
\* (lines 43-52) waits for the write lock of the image's cache record, takes
\* and releases it; then the darkroom reloads if it edits this image.
\* locks = the cache records whose write lock is held.
FlagAndReload(st, locks, imgid) ==
  IF imgid \in locks THEN [st |-> st, waited |-> TRUE]
  ELSE [st |-> [st EXCEPT !.dev = ReloadIfCurrent(@, imgid)], waited |-> FALSE]

\* the whole call; waited says that it did not come back
DeleteOnImage(st, locks, imgid) ==
  FlagAndReload(DeleteStatements(st, imgid), locks, imgid)

\* the rows of main.selected_images in ascending imgid
RECURSIVE SortSet(_)
SortSet(S) ==
  IF S = {} THEN <<>>
  ELSE LET m == CHOOSE a \in S : \A b \in S : a <= b IN <<m>> \o SortSet(S \ {m})

\* lines 367-372: the while loop over the selected images
RECURSIVE DeleteLoop(_, _, _, _)
DeleteLoop(acc, locks, imgs, k) ==
  IF k > Len(imgs) \/ acc.waited THEN acc
  ELSE DeleteLoop(DeleteOnImage(acc.st, locks, imgs[k]), locks, imgs, k + 1)

----------------------------------------------------------------------------
(***************************************************************************)
(* Initial stores: every image has a history with num = 0..n-1 in rowid    *)
(* order, instance numbers 0..k-1 per operation, instance 0 for a          *)
(* single-instance module, and a history_end within the history.  The      *)
(* payload columns are opaque to the code; they are tagged with the image  *)
(* and the position the row was written at, so that a row can be traced.   *)
(***************************************************************************)
Shapes ==
  {sh \in [operation : Iop, multi_priority : 0..(MaxInitLen - 1), multi_name : Labels] :
     IsOneInstance(sh.operation) => (sh.multi_priority = 0 /\ sh.multi_name = "0")}

InstancesOf(h, op) == {h[k].multi_priority : k \in {j \in DOMAIN h : h[j].operation = op}}

InstancesContiguous(h) ==
  \A op \in {h[k].operation : k \in DOMAIN h} :
     InstancesOf(h, op) = 0..(Cardinality(InstancesOf(h, op)) - 1)

InitEntry(i, n, sh) ==
  [num |-> n, module |-> 1 + (n % 2), operation |-> sh.operation,
   op_params |-> 10 * i + n, enabled |-> (i + n) % 2,
   blendop_params |-> 100 + 10 * i + n, blendop_version |-> 1 + (i % 2),
   multi_priority |-> sh.multi_priority, multi_name |-> sh.multi_name]

InitHistories(i, n) ==
  {[k \in 1..n |-> InitEntry(i, k - 1, f[k])] :
     f \in {g \in [1..n -> Shapes] : InstancesContiguous(g)}}

InitMask(i, h) == IF Len(h) = 0 THEN <<>> ELSE <<[formid |-> 100 * i + 1, points |-> i]>>

Store == [history |-> history, mask |-> mask, history_end |-> history_end,
          style_items |-> style_items, dev |-> dev]

\* the thread of SpecLoad that calls dt_history_load_and_apply_on_selection
\* and the one that calls dt_history_delete_on_image, both outside a call
NoJob == [pc |-> "idle", todo |-> <<>>, selected |-> {}, bad |-> {}, res |-> 0,
          rc |-> 0, n |-> 0]

NoDel == [pc |-> "idle", imgid |-> 0, n |-> 0]

NoCall(st) ==
  [kind |-> "init", n |-> 0, imgid |-> 0, dest |-> 0, merge |-> FALSE, ops |-> {},
   fail |-> "none", faildest |-> 0, selected |-> {}, bad |-> {}, ret |-> 0, returned |-> TRUE,
   order |-> <<>>,
   pre |-> st, staged |-> <<>>, normalized |-> <<>>, shifted |-> <<>>, log |-> <<>>]

\* Images 1 and 2 hold any well-formed history within the bounds; image 3
\* holds one fixed row.  The code treats all image ids alike.
FixedHistory == <<InitEntry(3, 0, [operation |-> "blur", multi_priority |-> 0,
                                    multi_name |-> "soft"])>>

InitStore(total) ==
  \E n1 \in 0..MaxInitLen, n2 \in 0..MaxInitLen :
    /\ n1 + n2 <= total
    /\ \E h1 \in InitHistories(1, n1), h2 \in InitHistories(2, n2) :
         /\ history = <<h1, h2, FixedHistory>>
         /\ mask = <<InitMask(1, h1), InitMask(2, h2), InitMask(3, FixedHistory)>>
    /\ \E e2 \in {n2 - 1, n2} \cap (0..n2) : history_end = <<n1, e2, 1>>
    /\ style_items = <<>>
    /\ wlock = {}
    /\ job = NoJob
    /\ del = NoDel

\* the edit the darkroom holds unwritten: one more item on top of the stack
PendingShape == [operation |-> "blur", multi_priority |-> 0, multi_name |-> "soft"]

\* the states of darktable.develop over the tables h, he, as far as
\* history.c reads them (the view at line 419, dt_dev_is_current_image at
\* lines 352, 385 and 571): another view, or the darkroom on an image with
\* nothing to write or with one item to write.  The item to write is taken
\* only where the whole stored stack is active, so that what the write does
\* with rows above history_end plays no part.
DevStates(h, he) ==
  {NoDev}
  \cup {[imgid |-> i, pending |-> <<>>] : i \in Items}
  \cup {[imgid |-> i, pending |-> <<InitEntry(i, Len(h[i]), PendingShape)>>] :
          i \in {j \in Items : he[j] = Len(h[j])}}

\* the darkroom is open in the initial stores of up to total rows in the
\* images 1 and 2; the larger ones start in another view
InitDev(total) ==
  IF Len(history[1]) + Len(history[2]) <= total
  THEN dev \in DevStates(history, history_end)
  ELSE dev = NoDev

\* the selections a caller passes for a source history: none (the empty list),
\* some of its num values, or a num value it does not have
Selections(h) ==
  (SUBSET {h[k].num : k \in DOMAIN h}) \cup {{Len(h)}}

----------------------------------------------------------------------------
(***************************************************************************)
(* The calls as actions on the store.                                      *)
(***************************************************************************)
SetStore(st) ==
  /\ history' = st.history
  /\ mask' = st.mask
  /\ history_end' = st.history_end
  /\ style_items' = st.style_items
  /\ dev' = st.dev

\* the call's result r is written back and the call recorded in last
RecordCopy(r, imgid, dest_imgid, merge, ops, fail) ==
  /\ SetStore(r.st)
  /\ last' = [NoCall(Store) EXCEPT !.kind = "copy", !.n = last.n + 1,
                !.imgid = imgid, !.dest = dest_imgid, !.merge = merge, !.ops = ops,
                !.fail = fail, !.ret = r.ret, !.staged = r.staged,
                !.normalized = r.normalized, !.shifted = r.shifted, !.log = r.log]
  /\ UNCHANGED <<wlock, job, del>>

DoCopyAndPaste(imgid, dest_imgid, merge, ops, fail) ==
  RecordCopy(CopyAndPasteOnImage(Store, imgid, dest_imgid, merge, ops, fail),
           imgid, dest_imgid, merge, ops, fail)

\* dt_history_delete_on_image: the call's result r is written back and the
\* call recorded in last
RecordDelete(r, imgid) ==
  /\ SetStore(r.st)
  /\ last' = [NoCall(Store) EXCEPT !.kind = "delete", !.n = last.n + 1,
                !.imgid = imgid, !.dest = imgid, !.returned = ~r.waited]
  /\ UNCHANGED <<wlock, job, del>>

DoDeleteOnImage(imgid) == RecordDelete(DeleteOnImage(Store, wlock, imgid), imgid)

\* dt_history_delete_on_selection; selected is main.selected_images
DeleteOnSelection(st, locks, selected) ==
  DeleteLoop([st |-> st, waited |-> FALSE], locks, SortSet(selected), 1)

RecordDeleteSelection(r, selected) ==
  /\ SetStore(r.st)
  /\ last' = [NoCall(Store) EXCEPT !.kind = "delete_sel", !.n = last.n + 1,
                !.selected = selected, !.returned = ~r.waited]
  /\ UNCHANGED <<wlock, job, del>>

DoDeleteOnSelection(selected) ==
  RecordDeleteSelection(DeleteOnSelection(Store, wlock, selected), selected)

(***************************************************************************)
(* Spec: one call, without store failure, on any initial store.            *)
(***************************************************************************)
Init ==
  /\ InitStore(MaxInitTotal)
  /\ InitDev(MaxDevTotal)
  /\ last = NoCall(Store)

CopyAndPaste ==
  /\ last.kind = "init"
  /\ \E imgid \in Items \cup {NoImage}, dest_imgid \in Items, merge \in BOOLEAN :
       \E ops \in (IF imgid = NoImage THEN {{}} ELSE Selections(history[imgid])) :
         DoCopyAndPaste(imgid, dest_imgid, merge, ops, "none")

DeleteHistory ==
  /\ last.kind = "init"
  /\ \E imgid \in Items : DoDeleteOnImage(imgid)

DeleteHistorySelection ==
  /\ last.kind = "init"
  /\ \E selected \in SUBSET Items : DoDeleteOnSelection(selected)

Next == CopyAndPaste \/ DeleteHistory \/ DeleteHistorySelection

Spec == Init /\ [][Next]_vars

----------------------------------------------------------------------------
(***************************************************************************)
(* dt_history_copy_and_paste_on_selection (lines 672-698).                 *)
(* selected is main.selected_images, read in ascending imgid.  A store     *)
(* failure, if any, hits the statement fail of the call made for faildest. *)
(***************************************************************************)
\* the loop that gives up once the call for one destination has met a failure
RECURSIVE PasteLoopAbort(_, _, _, _, _, _, _, _)
PasteLoopAbort(st, dests, k, imgid, merge, ops, faildest, fail) ==
  IF k > Len(dests) THEN st
  ELSE LET r == CopyAndPasteOnImage(st, imgid, dests[k], merge, ops,
                                    IF dests[k] = faildest THEN fail ELSE "none")
       IN IF dests[k] = faildest THEN r.st
          ELSE PasteLoopAbort(r.st, dests, k + 1, imgid, merge, ops, faildest, fail)

\* lines 681-691: the do-while over the selected images other than imgid
RECURSIVE PasteLoop(_, _, _, _, _, _, _, _)
PasteLoop(st, dests, k, imgid, merge, ops, faildest, fail) ==
  IF k > Len(dests) THEN st
  ELSE PasteLoop(CopyAndPasteOnImage(st, imgid, dests[k], merge, ops,
                                     IF dests[k] = faildest THEN fail ELSE "none").st,
                 dests, k + 1, imgid, merge, ops, faildest, fail)

CopyAndPasteOnSelection(st, imgid, merge, ops, selected, faildest, fail) ==
  IF imgid < 0 THEN [st |-> st, res |-> 1]
  ELSE LET dests == SortSet(selected \ {imgid})
       IN IF Len(dests) = 0 THEN [st |-> st, res |-> 1]
          ELSE [st |-> PasteLoop(st, dests, 1, imgid, merge, ops, faildest, fail),
                res |-> 0]

----------------------------------------------------------------------------
(***************************************************************************)
(* dt_history_load_and_apply (lines 376-391) and _on_selection (393-406).  *)
(* dt_exif_xmp_read is the external importer: on success it puts the       *)
(* sidecar's history in place of the image's, on failure it returns 1.     *)
(* The calls themselves are the steps of SpecLoad.                         *)
(***************************************************************************)
XmpHistory == <<[InitEntry(9, 0, [operation |-> "blur", multi_priority |-> 0,
                                  multi_name |-> "0"]) EXCEPT !.op_params = 900]>>

XmpRead(st, imgid, parses) ==
  IF parses
  THEN [st |-> [st EXCEPT !.history[imgid] = XmpHistory,
                          !.history_end[imgid] = Len(XmpHistory)], rc |-> 0]
  ELSE [st |-> st, rc |-> 1]

----------------------------------------------------------------------------
(***************************************************************************)
(* SpecSeq: sequences of calls without store failure.                      *)
(***************************************************************************)
\* SpecSeq keeps of a call only its kind and its number: the store is what
\* the claims of sequences are about.
NoStore == [history |-> <<>>, mask |-> <<>>, history_end |-> <<>>, style_items |-> <<>>,
            dev |-> NoDev]

InitSeq ==
  /\ InitStore(MaxSeqTotal)
  /\ InitDev(MaxSeqDevTotal)
  /\ last = NoCall(NoStore)

CopyAndPasteSeq ==
  /\ last.n < MaxSeqCalls
  /\ \E imgid \in Items, dest_imgid \in Items, merge \in BOOLEAN :
       \E ops \in Selections(history[imgid]) :
         /\ Len(history[dest_imgid]) + Len(history[imgid]) <= MaxHist
         /\ SetStore(CopyAndPasteOnImage(Store, imgid, dest_imgid, merge, ops, "none").st)
         /\ last' = [NoCall(NoStore) EXCEPT !.kind = "copy", !.n = last.n + 1,
                                            !.merge = merge]
         /\ UNCHANGED <<wlock, job, del>>

DeleteHistorySeq ==
  /\ last.n < MaxSeqCalls
  /\ \E imgid \in Items :
       /\ SetStore(DeleteOnImage(Store, wlock, imgid).st)
       /\ last' = [NoCall(NoStore) EXCEPT !.kind = "delete", !.n = last.n + 1]
       /\ UNCHANGED <<wlock, job, del>>

NextSeq == CopyAndPasteSeq \/ DeleteHistorySeq

SpecSeq == InitSeq /\ [][NextSeq]_vars

----------------------------------------------------------------------------
(***************************************************************************)
(* SpecFail and SpecBatch: one call on an initial store, where one          *)
(* statement of the store may fail.                                        *)
(***************************************************************************)
\* the statements a call with this merge flag executes
StepsOf(merge) ==
  IF merge THEN FailSteps \ {"delmask"}
  ELSE FailSteps \ {"offs", "normalize", "shift", "reconcile"}

InitFail ==
  /\ InitStore(MaxFailTotal)
  /\ dev = NoDev
  /\ last = NoCall(Store)

CopyAndPasteFailing ==
  /\ last.kind = "init"
  /\ \E imgid \in Items, dest_imgid \in Items, merge \in BOOLEAN :
       \E ops \in Selections(history[imgid]), fail \in StepsOf(merge) :
         /\ imgid # dest_imgid
         /\ DoCopyAndPaste(imgid, dest_imgid, merge, ops, fail)

\* main.selected_images when the source image is pasted on the selection:
\* the source and any of the other images
SelectedImages(imgid) ==
  IF imgid = NoImage THEN {Items} ELSE {S \in SUBSET Items : imgid \in S}

\* the selections of SpecBatch: none, one num value of the source, or a num
\* value it does not have
SingleSelections(h) ==
  {{}} \cup {{h[k].num} : k \in DOMAIN h} \cup {{Len(h)}}

CopyAndPasteSelection ==
  /\ last.kind = "init"
  /\ \E imgid \in Items \cup {NoImage}, merge \in BOOLEAN :
       \E ops \in (IF imgid = NoImage THEN {{}} ELSE SingleSelections(history[imgid])),
          selected \in SelectedImages(imgid) :
        \E faildest \in {0} \cup (selected \ {imgid}) :
         \E fail \in (IF faildest = 0 THEN {"none"} ELSE StepsOf(merge)) :
           LET r == CopyAndPasteOnSelection(Store, imgid, merge, ops, selected, faildest, fail)
           IN /\ SetStore(r.st)
              /\ last' = [NoCall(Store) EXCEPT !.kind = "copy_sel", !.n = last.n + 1,
                            !.imgid = imgid, !.merge = merge, !.ops = ops,
                            !.selected = selected, !.faildest = faildest,
                            !.fail = fail, !.ret = r.res]
              /\ UNCHANGED <<wlock, job, del>>

(***************************************************************************)
(* SpecDelete: dt_history_delete_on_image called again and again on any    *)
(* initial store.                                                          *)
(***************************************************************************)
MaxDeleteCalls == 2

DeleteHistoryAgain ==
  /\ last.n < MaxDeleteCalls
  /\ \E imgid \in Items : DoDeleteOnImage(imgid)

DeleteSelectionAgain ==
  /\ last.n < MaxDeleteCalls
  /\ \E selected \in SUBSET Items : DoDeleteOnSelection(selected)

NextDelete == DeleteHistoryAgain \/ DeleteSelectionAgain

SpecDelete == Init /\ [][NextDelete]_vars

(***************************************************************************)
(* SpecNormalize: _dt_history_cleanup_multi_instance run again and again   *)
(* on memory.style_items.  The table starts with rows as a copy/paste      *)
(* stages them: num ascending in rowid order, any instance numbers for a   *)
(* module that may have several instances, 0 for a single-instance module. *)
(***************************************************************************)
MaxStagedLen == 3

MaxNormalizeRuns == 2

StagedShapes ==
  {sh \in [operation : Iop, multi_priority : 0..(MaxStagedLen - 1), multi_name : {"0"}] :
     IsOneInstance(sh.operation) => sh.multi_priority = 0}

StagedTables ==
  UNION {{[k \in 1..n |-> InitEntry(1, k - 1, f[k])] : f \in [1..n -> StagedShapes]} :
           n \in 0..MaxStagedLen}

InitNormalize ==
  /\ style_items \in StagedTables
  /\ history = <<<<>>, <<>>, <<>>>>
  /\ mask = <<<<>>, <<>>, <<>>>>
  /\ history_end = <<0, 0, 0>>
  /\ wlock = {}
  /\ dev = NoDev
  /\ job = NoJob
  /\ del = NoDel
  /\ last = NoCall(NoStore)

\* last.staged is the table the first run started from, last.normalized the
\* table this run started from, last.ret this run's nb_change
NormalizeStaged ==
  /\ last.n < MaxNormalizeRuns
  /\ style_items' = CleanupMultiInstance(style_items, FALSE)
  /\ last' = [NoCall(NoStore) EXCEPT !.kind = "normalize", !.n = last.n + 1,
                !.staged = IF last.kind = "init" THEN style_items ELSE last.staged,
                !.normalized = style_items,
                !.ret = NbChange(style_items)]
  /\ UNCHANGED <<history, mask, history_end, wlock, dev, job, del>>

NextNormalize == NormalizeStaged

SpecNormalize == InitNormalize /\ [][NextNormalize]_vars

(***************************************************************************)
(* SpecMerge: one merge between two images whose histories hold rows of    *)
(* modules that may have several instances, every row below history_end.   *)
(***************************************************************************)
MaxMergeLen == 2

MergeHistories(i) ==
  UNION {{h \in InitHistories(i, n) : \A k \in 1..n : ~IsOneInstance(h[k].operation)} :
           n \in 0..MaxMergeLen}

InitMerge ==
  /\ \E h1 \in MergeHistories(1), h2 \in MergeHistories(2) :
       /\ history = <<h1, h2, FixedHistory>>
       /\ mask = <<InitMask(1, h1), InitMask(2, h2), InitMask(3, FixedHistory)>>
       /\ history_end = <<Len(h1), Len(h2), 1>>
  /\ style_items = <<>>
  /\ wlock = {}
  /\ dev = NoDev
  /\ job = NoJob
  /\ del = NoDel
  /\ last = NoCall(Store)

CopyAndPasteMerge ==
  /\ last.kind = "init"
  /\ \E imgid \in Items, dest_imgid \in Items :
       \E ops \in Selections(history[imgid]) :
         /\ imgid # dest_imgid
         /\ DoCopyAndPaste(imgid, dest_imgid, TRUE, ops, "none")

NextMerge == CopyAndPasteMerge

SpecMerge == InitMerge /\ [][NextMerge]_vars

(***************************************************************************)
(* SpecOrder: dt_history_copy_and_paste_on_selection without store         *)
(* failure.  The SELECT of lines 678-680 has no ORDER BY, so the selected  *)
(* images may come in any order.                                           *)
(***************************************************************************)
\* the orders in which the rows of a table with the keys S can be returned
Orders(S) ==
  {s \in [1..Cardinality(S) -> S] :
     \A a \in DOMAIN s, b \in DOMAIN s : a # b => s[a] # s[b]}

\* lines 672-698 with the selected images other than imgid returned as dests
CopyAndPasteOnSelectionInOrder(st, imgid, merge, ops, dests) ==
  IF imgid < 0 THEN [st |-> st, res |-> 1]
  ELSE IF Len(dests) = 0 THEN [st |-> st, res |-> 1]
  ELSE [st |-> PasteLoop(st, dests, 1, imgid, merge, ops, 0, "none"), res |-> 0]

\* the call's result r is written back and the call recorded in last
RecordBatch(r, imgid, merge, ops, selected, dests) ==
  /\ SetStore(r.st)
  /\ last' = [NoCall(Store) EXCEPT !.kind = "copy_sel", !.n = last.n + 1,
                !.imgid = imgid, !.merge = merge, !.ops = ops,
                !.selected = selected, !.order = dests, !.ret = r.res]
  /\ UNCHANGED <<wlock, job, del>>

CopyAndPasteSelectionAnyOrder ==
  /\ last.kind = "init"
  /\ \E imgid \in Items, merge \in BOOLEAN :
       \E ops \in Selections(history[imgid]), selected \in SelectedImages(imgid) :
         \E dests \in Orders(selected \ {imgid}) :
           RecordBatch(CopyAndPasteOnSelectionInOrder(Store, imgid, merge, ops, dests),
                       imgid, merge, ops, selected, dests)

NextOrder == CopyAndPasteSelectionAnyOrder

InitOrder ==
  /\ InitStore(MaxFailTotal)
  /\ InitDev(MaxOrderDevTotal)
  /\ last = NoCall(Store)

SpecOrder == InitOrder /\ [][NextOrder]_vars

(***************************************************************************)
(* SpecLoad: one thread calls dt_history_load_and_apply_on_selection,      *)
(* another dt_history_delete_on_image.  A step of a thread is one          *)
(* statement of the store or one operation on the lock of an image cache   *)
(* record; wlock holds the records whose write lock is held.  last is      *)
(* written when a call returns.                                            *)
(***************************************************************************)
MaxLoadTotal == 1    \* history rows of images 1 and 2 in an initial store

MaxLoadCalls == 2    \* calls of the loading thread

MaxDelCalls == 1     \* calls of the deleting thread

InitLoad ==
  /\ InitStore(MaxLoadTotal)
  /\ InitDev(MaxLoadTotal)
  /\ last = NoCall(NoStore)

\* lines 393-399: the call; bad = the selected images whose import fails.
\* With no image selected the call is back at once.
LoadStart ==
  /\ job.pc = "idle" /\ job.n < MaxLoadCalls
  /\ \E selected \in SUBSET Items : \E bad \in SUBSET selected :
       /\ job' = [pc |-> IF selected = {} THEN "idle" ELSE "get",
                  todo |-> SortSet(selected), selected |-> selected, bad |-> bad,
                  res |-> 0, rc |-> 0, n |-> job.n + 1]
       /\ last' = IF selected # {} THEN last
                  ELSE [NoCall(NoStore) EXCEPT !.kind = "load_sel", !.n = job.n + 1]
  /\ UNCHANGED <<history, mask, history_end, style_items, wlock, dev, del>>

\* line 379: dt_image_cache_get(.., 'w') waits until the lock is free
LoadGet ==
  /\ job.pc = "get"
  /\ Head(job.todo) \notin wlock
  /\ wlock' = wlock \cup {Head(job.todo)}
  /\ job' = [job EXCEPT !.pc = "read"]
  /\ UNCHANGED <<history, mask, history_end, style_items, dev, del, last>>

\* line 382 when dt_exif_xmp_read fails: on to the return of 1, past the
\* release of line 387
LoadReadFailed ==
  /\ job.pc = "read"
  /\ Head(job.todo) \in job.bad
  /\ SetStore(XmpRead(Store, Head(job.todo), FALSE).st)
  /\ job' = [job EXCEPT !.pc = "return", !.rc = 1]
  /\ UNCHANGED <<wlock, del, last>>

\* line 382 when dt_exif_xmp_read succeeds, and the test of line 385
LoadRead ==
  /\ job.pc = "read"
  /\ Head(job.todo) \notin job.bad
  /\ SetStore(XmpRead(Store, Head(job.todo), TRUE).st)
  /\ job' = [job EXCEPT !.pc = IF dev.imgid = Head(job.todo) THEN "reload"
                               ELSE "release"]
  /\ UNCHANGED <<wlock, del, last>>

\* line 385: the darkroom reloads, the lock still held
LoadReload ==
  /\ job.pc = "reload"
  /\ dev' = DevReloadHistoryItems(dev)
  /\ job' = [job EXCEPT !.pc = "release"]
  /\ UNCHANGED <<history, mask, history_end, style_items, wlock, del, last>>

\* line 387: the lock is released
LoadRelease ==
  /\ job.pc = "release"
  /\ wlock' = wlock \ {Head(job.todo)}
  /\ job' = [job EXCEPT !.pc = "return", !.rc = 0]
  /\ UNCHANGED <<history, mask, history_end, style_items, dev, del, last>>

\* lines 388-390 and 399-405: dt_history_load_and_apply returns rc; the
\* caller goes on to the next image or returns res itself
LoadReturn ==
  /\ job.pc = "return"
  /\ job' = [job EXCEPT !.todo = Tail(@), !.rc = 0,
                        !.res = IF job.rc # 0 THEN 1 ELSE @,
                        !.pc = IF Len(job.todo) > 1 THEN "get" ELSE "idle"]
  /\ last' = IF Len(job.todo) > 1 THEN last
             ELSE [NoCall(NoStore) EXCEPT !.kind = "load_sel", !.n = job.n,
                     !.selected = job.selected, !.bad = job.bad,
                     !.ret = IF job.rc # 0 THEN 1 ELSE job.res]
  /\ UNCHANGED <<history, mask, history_end, style_items, wlock, dev, del>>

\* line 329: dt_history_delete_on_image is called
DelStart ==
  /\ del.pc = "idle" /\ del.n < MaxDelCalls
  /\ \E imgid \in Items : del' = [pc |-> "history", imgid |-> imgid, n |-> del.n + 1]
  /\ UNCHANGED <<history, mask, history_end, style_items, wlock, dev, job, last>>

\* lines 331-335
DelHistory ==
  /\ del.pc = "history"
  /\ SetStore(DeleteHistoryRows(Store, del.imgid))
  /\ del' = [del EXCEPT !.pc = "end"]
  /\ UNCHANGED <<wlock, job, last>>

\* lines 337-341
DelEnd ==
  /\ del.pc = "end"
  /\ SetStore(ResetHistoryEnd(Store, del.imgid))
  /\ del' = [del EXCEPT !.pc = "mask"]
  /\ UNCHANGED <<wlock, job, last>>

\* lines 343-346
DelMask ==
  /\ del.pc = "mask"
  /\ SetStore(DeleteMaskRows(Store, del.imgid))
  /\ del' = [del EXCEPT !.pc = "get"]
  /\ UNCHANGED <<wlock, job, last>>

\* line 45: remove_preset_flag waits until the lock is free and takes it
DelGet ==
  /\ del.pc = "get"
  /\ del.imgid \notin wlock
  /\ wlock' = wlock \cup {del.imgid}
  /\ del' = [del EXCEPT !.pc = "flag"]
  /\ UNCHANGED <<history, mask, history_end, style_items, dev, job, last>>

\* lines 48-51: the flag is cleared and the lock released; the test of line 352
DelRelease ==
  /\ del.pc = "flag"
  /\ wlock' = wlock \ {del.imgid}
  /\ del' = [del EXCEPT !.pc = IF dev.imgid = del.imgid THEN "reload" ELSE "return"]
  /\ UNCHANGED <<history, mask, history_end, style_items, dev, job, last>>

\* line 352: the darkroom reloads
DelReload ==
  /\ del.pc = "reload"
  /\ dev' = DevReloadHistoryItems(dev)
  /\ del' = [del EXCEPT !.pc = "return"]
  /\ UNCHANGED <<history, mask, history_end, style_items, wlock, job, last>>

\* lines 353-360: the call returns
DelReturn ==
  /\ del.pc = "return"
  /\ del' = [del EXCEPT !.pc = "idle"]
  /\ last' = [NoCall(NoStore) EXCEPT !.kind = "delete", !.n = del.n,
                !.imgid = del.imgid, !.dest = del.imgid]
  /\ UNCHANGED <<history, mask, history_end, style_items, wlock, dev, job>>

NextLoad ==
  \/ LoadStart \/ LoadGet \/ LoadReadFailed \/ LoadRead \/ LoadReload
  \/ LoadRelease \/ LoadReturn
  \/ DelStart \/ DelHistory \/ DelEnd \/ DelMask \/ DelGet \/ DelRelease
  \/ DelReload \/ DelReturn

SpecLoad == InitLoad /\ [][NextLoad]_vars

\* SpecFail: a single copy/paste with a failing statement
NextFail == CopyAndPasteFailing

SpecFail == InitFail /\ [][NextFail]_vars

\* SpecBatch: the calls on the selection
NextBatch == CopyAndPasteSelection

SpecBatch == InitFail /\ [][NextBatch]_vars

----------------------------------------------------------------------------
(***************************************************************************)
(* Vocabulary of the claims.  These definitions describe histories; they   *)
(* do not use the operators that model the code.                           *)
(***************************************************************************)
Nums(h) == {h[k].num : k \in DOMAIN h}

SeqContiguous(h) == Nums(h) = 0..(Len(h) - 1)

\* the live entry of an instance: its row with the greatest num
Live(h, op, mi) ==
  LET G == {k \in DOMAIN h : h[k].operation = op /\ h[k].multi_priority = mi}
  IN h[CHOOSE k \in G : \A j \in G : h[j].num <= h[k].num]

Operations(h) == {h[k].operation : k \in DOMAIN h}

\* the last call was a copy/paste that went through the pipeline
Pasted == last.kind = "copy" /\ last.ret = 0

\* the history of the image i before the call: its rows of main.history
\* and, when the darkroom edits it, the items of its stack not yet written
PreHistory(i) ==
  IF last.pre.dev.imgid = i THEN last.pre.history[i] \o last.pre.dev.pending
  ELSE last.pre.history[i]

\* its active length before the call: the length of the darkroom's stack
\* when it holds unwritten items, history_end otherwise
PreEnd(i) ==
  IF last.pre.dev.imgid = i /\ last.pre.dev.pending # <<>>
  THEN Len(PreHistory(i)) ELSE last.pre.history_end[i]

PreSource == PreHistory(last.imgid)

PreDest == PreHistory(last.dest)

\* the rows of the destination below its active length before the call
Kept == SelectSeq(PreDest, LAMBDA r : r.num < PreEnd(last.dest))

\* the rows of the destination the call added after the ones it kept
Added == SubSeq(history[last.dest], Len(Kept) + 1, Len(history[last.dest]))

----------------------------------------------------------------------------
\* C1: in every store reached by a sequence of copy/paste (merge or replace,
\* with or without a selection) and delete calls from histories numbered
\* 0..n-1, the num values of every image are exactly 0..n-1.
C1_SeqContiguity == \A i \in Items : SeqContiguous(history[i])

C1_Witness ==
  /\ last.kind = "copy" /\ last.merge /\ last.n >= 2
  /\ \E i \in Items : Len(history[i]) >= 3

\* C2: after a copy/paste the live instance numbers of every operation of the
\* destination are 0..k-1.
C2_InstanceContiguity == Pasted => InstancesContiguous(history[last.dest])

\* C3: when a statement of the store fails during a copy/paste, the
\* destination's history, masks and history_end are what they were before.
C3_Atomicity ==
  (last.kind = "copy" /\ last.fail # "none") =>
     /\ history[last.dest] = PreDest
     /\ mask[last.dest] = last.pre.mask[last.dest]
     /\ history_end[last.dest] = last.pre.history_end[last.dest]

----------------------------------------------------------------------------
(***************************************************************************)
(* C4: how a merge pairs the instances of the destination with the staged  *)
(* rows.  The instances of the destination that carry the label L are      *)
(* taken in ascending instance number, the staged rows with the label L in *)
(* row order; the r-th instance is paired with the r-th row, if there is   *)
(* one.                                                                    *)
(***************************************************************************)
LabelOf(op, mi) == Live(Kept, op, mi).multi_name

LabelRank(op, mi) ==
  Cardinality({m \in InstancesOf(Kept, op) : m <= mi /\ LabelOf(op, m) = LabelOf(op, mi)})

Candidates(op, name) ==
  {k \in DOMAIN Added : Added[k].operation = op /\ Added[k].multi_name = name}

IsMatched(op, mi) == LabelRank(op, mi) <= Cardinality(Candidates(op, LabelOf(op, mi)))

Partner(op, mi) ==
  LET C == Candidates(op, LabelOf(op, mi))
  IN Added[CHOOSE k \in C : Cardinality({j \in C : j <= k}) = LabelRank(op, mi)]

FamilyRows(op, mi) ==
  {j \in DOMAIN Kept : Kept[j].operation = op /\ Kept[j].multi_priority = mi}

\* C4: after a merge, for every multi-instance operation: a destination
\* instance paired with a staged row has that row's instance number and the
\* copied row is the live entry of it; every other destination instance is
\* still live with its own entry; the live instances are as many as the
\* staged instances plus the unpaired destination instances.
C4_MergeSupersedes ==
  (Pasted /\ last.merge) =>
    \A op \in Iop \ IopOneInstance :
      LET H == history[last.dest] IN
      /\ \A mi \in InstancesOf(Kept, op) :
           IF IsMatched(op, mi)
           THEN /\ \A j \in FamilyRows(op, mi) :
                     H[j].multi_priority = Partner(op, mi).multi_priority
                /\ Live(H, op, Partner(op, mi).multi_priority) = Partner(op, mi)
           ELSE \E m2 \in InstancesOf(H, op) :
                  /\ \A j \in FamilyRows(op, mi) : H[j].multi_priority = m2
                  /\ Live(H, op, m2).num = Live(Kept, op, mi).num
                  /\ Live(H, op, m2).op_params = Live(Kept, op, mi).op_params
      /\ Cardinality(InstancesOf(H, op)) =
           Cardinality(InstancesOf(Added, op))
           + Cardinality({mi \in InstancesOf(Kept, op) : ~IsMatched(op, mi)})

C4_Witness ==
  /\ Pasted /\ last.merge
  /\ \E op \in Iop \ IopOneInstance :
       \E a \in InstancesOf(Kept, op), b \in InstancesOf(Kept, op) :
         /\ IsMatched(op, a) /\ ~IsMatched(op, b)
         /\ Partner(op, a).op_params # Live(Kept, op, a).op_params

----------------------------------------------------------------------------
\* the num values of the source that a call with the selection last.ops takes
TakenNums == IF last.ops = {} THEN Nums(PreSource) ELSE Nums(PreSource) \cap last.ops

\* C5: after a replace the destination's history is the taken rows of the
\* source in num order, renumbered from 0, all other columns unchanged; no row
\* and no mask of the former destination is left; the masks are the source's.
C5_ReplaceFaithful ==
  (Pasted /\ ~last.merge) =>
    LET H == history[last.dest] IN
    /\ Len(H) = Cardinality(TakenNums)
    /\ \A k \in DOMAIN H :
         \E j \in DOMAIN PreSource :
           /\ PreSource[j].num \in TakenNums
           /\ Cardinality({x \in TakenNums : x <= PreSource[j].num}) = k
           /\ H[k] = [PreSource[j] EXCEPT !.num = k - 1]
    /\ \A k \in DOMAIN H : \A j \in DOMAIN PreDest : H[k].op_params # PreDest[j].op_params
    /\ mask[last.dest] = last.pre.mask[last.imgid]

C5_Witness ==
  /\ Pasted /\ ~last.merge /\ last.ops = {1}
  /\ Len(PreDest) = 1 /\ Len(PreSource) = 2
  /\ Len(history[last.dest]) = 1
  /\ Len(last.pre.mask[last.dest]) = 1

----------------------------------------------------------------------------
\* C6: a copy/paste of an image onto itself returns 1 and leaves the history,
\* the masks, history_end and the staging table as they were.
C6_SelfCopyRejected ==
  (last.kind = "copy" /\ last.imgid = last.dest) =>
    /\ last.ret = 1
    /\ history = last.pre.history
    /\ mask = last.pre.mask
    /\ history_end = last.pre.history_end
    /\ style_items = last.pre.style_items
    /\ dev = last.pre.dev

C6_Witness ==
  /\ last.kind = "copy" /\ last.imgid = last.dest /\ ~last.merge /\ last.ops = {0}
  /\ Len(history[last.dest]) = 2

----------------------------------------------------------------------------
\* C7: a copy/paste whose source has no history, or whose selection takes no
\* row of it, returns failure and leaves the destination as it was.
C7_NoSourceHistory ==
  (last.kind = "copy" /\ last.imgid \in Items /\ last.imgid # last.dest
     /\ TakenNums = {}) =>
    /\ last.ret = 1
    /\ history[last.dest] = PreDest
    /\ mask[last.dest] = last.pre.mask[last.dest]
    /\ history_end[last.dest] = last.pre.history_end[last.dest]

----------------------------------------------------------------------------
\* the taken rows of the source with the operation op
TakenRows(op) ==
  {j \in DOMAIN PreSource : PreSource[j].num \in TakenNums /\ PreSource[j].operation = op}

\* C8: merging rows of a single-instance module onto a destination with one
\* live instance of it leaves one live instance, number 0, whose live entry is
\* the newest copied row; the destination's older rows of it are unchanged.
C8_SingleInstance ==
  (Pasted /\ last.merge) =>
    \A op \in IopOneInstance :
      (TakenRows(op) # {} /\ Cardinality(InstancesOf(Kept, op)) = 1) =>
        LET H == history[last.dest]
            newest == PreSource[CHOOSE j \in TakenRows(op) :
                          \A i \in TakenRows(op) : PreSource[i].num <= PreSource[j].num]
        IN /\ InstancesOf(H, op) = {0}
           /\ Live(H, op, 0).op_params = newest.op_params
           /\ Live(H, op, 0).num >= Len(Kept)
           /\ \A j \in DOMAIN Kept : Kept[j].operation = op => H[j] = Kept[j]

C8_Witness ==
  /\ Pasted /\ last.merge
  /\ \E op \in IopOneInstance :
       /\ TakenRows(op) # {} /\ Cardinality(InstancesOf(Kept, op)) = 1
       /\ Cardinality({k \in DOMAIN history[last.dest] :
                         history[last.dest][k].operation = op}) = 3

----------------------------------------------------------------------------
\* the store after one copy/paste on the destination d alone, without failure,
\* made on the store the batch started from
Standalone(d) ==
  CopyAndPasteOnImage(last.pre, last.imgid, d, last.merge, last.ops, "none").st

\* C9: when the call for one selected destination meets a store failure, every
\* other selected destination (the source excluded) has the history, the masks
\* and the history_end that a copy/paste on it alone produces.
C9_BatchContinuation ==
  (last.kind = "copy_sel" /\ last.imgid \in Items) =>
    \A d \in last.selected \ {last.imgid, last.faildest} :
      /\ history[d] = Standalone(d).history[d]
      /\ mask[d] = Standalone(d).mask[d]
      /\ history_end[d] = Standalone(d).history_end[d]

C9_Witness ==
  /\ last.kind = "copy_sel" /\ last.imgid \in Items /\ last.faildest # 0
  /\ history[last.faildest] # Standalone(last.faildest).history[last.faildest]
  /\ \E d \in last.selected \ {last.imgid} :
       /\ d > last.faildest
       /\ history[d] # last.pre.history[d]
       /\ Len(history[d]) >= 2

\* C10: a call on the selection returns failure when the call for at least one
\* selected image failed.
C10_FailureAggregation ==
  (last.kind = "copy_sel" /\ last.faildest # 0) => last.ret = 1

----------------------------------------------------------------------------
\* C11: after a copy/paste that returned 0 the destination's history_end is
\* the number of its rows: an integer >= 0, greater than every num, and 0 when
\* the history is empty.
C11_ActiveLength ==
  Pasted =>
    /\ history_end[last.dest] = Len(history[last.dest])
    /\ history_end[last.dest] >= 0
    /\ \A k \in DOMAIN history[last.dest] :
         history[last.dest][k].num < history_end[last.dest]

----------------------------------------------------------------------------
\* the image i of the store st has no history row, no mask row and history_end 0
Cleared(st, i) ==
  st.history[i] = <<>> /\ st.mask[i] = <<>> /\ st.history_end[i] = 0

\* C12: after dt_history_delete_on_image the image has no history row, no mask
\* row and history_end 0, every other image is as it was, and a call on an
\* image that is already in that state changes nothing.
C12_DeleteHistory ==
  last.kind = "delete" =>
    /\ Cleared(Store, last.imgid)
    /\ \A i \in Items \ {last.imgid} :
         /\ history[i] = last.pre.history[i]
         /\ mask[i] = last.pre.mask[i]
         /\ history_end[i] = last.pre.history_end[i]
    /\ Cleared(last.pre, last.imgid) =>
         /\ history = last.pre.history
         /\ mask = last.pre.mask
         /\ history_end = last.pre.history_end

\* the second call on an image that the first call emptied, next to an image
\* that still has its rows
C12_Witness ==
  /\ last.kind = "delete" /\ last.n = 2
  /\ Cleared(last.pre, last.imgid)
  /\ \E i \in Items \ {last.imgid} : Len(history[i]) = 2 /\ mask[i] # <<>>

----------------------------------------------------------------------------
\* C13: after _dt_history_cleanup_multi_instance, two staged rows of one
\* operation have the same multi_priority exactly when they had the same
\* multi_priority before it.
C13_NormalizerFamilies ==
  (Pasted /\ last.merge) =>
    \A a \in DOMAIN last.staged, b \in DOMAIN last.staged :
      last.staged[a].operation = last.staged[b].operation =>
        ((last.staged[a].multi_priority = last.staged[b].multi_priority)
           <=> (last.normalized[a].multi_priority = last.normalized[b].multi_priority))

----------------------------------------------------------------------------
\* C14: a run of _dt_history_cleanup_multi_instance on a table that a run of
\* it has produced counts no change and leaves every row as it is; no run
\* changes the multi_priority of a row of a single-instance module.
C14_NormalizerIdempotent ==
  last.kind = "normalize" =>
    /\ last.n >= 2 => (last.ret = 0 /\ style_items = last.normalized)
    /\ \A k \in DOMAIN style_items :
         style_items[k].operation \in IopOneInstance =>
           style_items[k].multi_priority = last.normalized[k].multi_priority

\* the second run, after a first run that renumbered a table which also holds
\* a row of a single-instance module
C14_Witness ==
  /\ last.kind = "normalize" /\ last.n = 2
  /\ last.staged # last.normalized
  /\ \E k \in DOMAIN style_items : style_items[k].operation \in IopOneInstance
  /\ \E k \in DOMAIN style_items : style_items[k].multi_priority = 1

----------------------------------------------------------------------------
\* the multi_priority values of the rows of the table si with the operation op
StagedInstances(si, op) ==
  {si[j].multi_priority : j \in {i \in DOMAIN si : si[i].operation = op}}

MaxOf(S) == CHOOSE x \in S : \A y \in S : y <= x

\* C15: after Phase A of a merge, a destination row of a multi-instance
\* operation that is staged has its multi_priority raised by the greatest
\* staged multi_priority of that operation + 1, which is above every staged
\* one; every other destination row is as it was.
C15_PhaseASeparation ==
  (Pasted /\ last.merge) =>
    /\ Len(last.shifted) = Len(Kept)
    /\ \A k \in DOMAIN Kept :
         LET S == StagedInstances(last.normalized, Kept[k].operation)
         IN IF S # {} /\ Kept[k].operation \notin IopOneInstance
            THEN /\ last.shifted[k] =
                      [Kept[k] EXCEPT !.multi_priority = @ + MaxOf(S) + 1]
                 /\ \A m \in S : last.shifted[k].multi_priority > m
            ELSE last.shifted[k] = Kept[k]

\* a destination row raised by 2 over two staged instances
C15_Witness ==
  /\ Pasted /\ last.merge
  /\ \E k \in DOMAIN Kept :
       /\ Kept[k].operation \notin IopOneInstance
       /\ StagedInstances(last.normalized, Kept[k].operation) = {0, 1}
       /\ last.shifted[k].multi_priority = Kept[k].multi_priority + 2

----------------------------------------------------------------------------
\* the steps of Phase B up to the t-th that found no staged row for a group of
\* the operation op
UnmatchedUpTo(t, op) ==
  {u \in 1..t : last.log[u].operation = op /\ last.log[u].matched = 0}

\* C16: in Phase B of a merge, the groups of an operation are handled in
\* ascending multi_priority; the i-th group without a staged match gets the
\* greatest staged multi_priority of the operation + i, above every staged
\* one; and after every step, rows of the destination that were in different
\* groups of one operation before the merge have different multi_priority.
C16_UnmatchedAfter ==
  (Pasted /\ last.merge) =>
    \A t \in DOMAIN last.log :
      LET e == last.log[t] IN
      /\ e.matched = 0 =>
           /\ e.new = MaxOf(StagedInstances(last.normalized, e.operation))
                        + Cardinality(UnmatchedUpTo(t, e.operation))
           /\ \A m \in StagedInstances(last.normalized, e.operation) : e.new > m
      /\ \A u \in 1..(t - 1) :
           last.log[u].operation = e.operation => last.log[u].old < e.old
      /\ \A a \in DOMAIN Kept, b \in DOMAIN Kept :
           (Kept[a].operation = Kept[b].operation
              /\ Kept[a].multi_priority # Kept[b].multi_priority)
           => e.h[a].multi_priority # e.h[b].multi_priority

\* two groups of one operation without a staged match, handled one after the
\* other
C16_Witness ==
  /\ Pasted /\ last.merge
  /\ \E t \in DOMAIN last.log, u \in DOMAIN last.log :
       /\ u < t
       /\ last.log[u].operation = last.log[t].operation
       /\ last.log[u].matched = 0 /\ last.log[t].matched = 0
       /\ last.log[t].new = last.log[u].new + 1

----------------------------------------------------------------------------
\* the rowids of the staged rows that Phase B matched with a group
MatchedRows == {last.log[t].matched : t \in DOMAIN last.log} \ {0}

\* C17: in Phase B of a merge no staged row is matched with two groups of the
\* destination; a matched row has num = -1 afterwards and no other staged row
\* is changed; the rows appended to the destination are all the staged rows,
\* with the columns they had after normalization and num running on from the
\* destination's rows.
C17_ConsumedOnce ==
  (Pasted /\ last.merge) =>
    /\ \A t \in DOMAIN last.log, u \in DOMAIN last.log :
         (t # u /\ last.log[t].matched # 0) => last.log[t].matched # last.log[u].matched
    /\ Len(style_items) = Len(last.normalized)
    /\ \A k \in DOMAIN style_items :
         style_items[k] = IF k \in MatchedRows
                          THEN [last.normalized[k] EXCEPT !.num = -1]
                          ELSE last.normalized[k]
    /\ Len(Added) = Len(last.normalized)
    /\ \A k \in DOMAIN Added :
         Added[k] = [last.normalized[k] EXCEPT !.num = Len(Kept) + k - 1]

\* a staged row matched with one group, and a later group with the same
\* operation and label that finds no row left
C17_Witness ==
  /\ Pasted /\ last.merge
  /\ \E t \in DOMAIN last.log, u \in DOMAIN last.log :
       /\ t < u
       /\ last.log[t].operation = last.log[u].operation
       /\ last.log[t].multi_name = last.log[u].multi_name
       /\ last.log[t].matched # 0 /\ last.log[u].matched = 0
  /\ \E k \in DOMAIN style_items : style_items[k].num = -1

----------------------------------------------------------------------------
\* the rowids of the staged rows of the operation op that carry the label name
StagedCandidates(op, name) ==
  {k \in DOMAIN last.normalized :
     last.normalized[k].operation = op /\ last.normalized[k].multi_name = name}

\* C18: Phase B matches a group of the destination only with a staged row of
\* the same operation and the same multi_name, and a group with the unnamed
\* label "0" only when the operation has exactly one staged row labelled "0".
C18_SentinelLabel ==
  (Pasted /\ last.merge) =>
    \A t \in DOMAIN last.log :
      LET e == last.log[t] IN
      e.matched # 0 =>
        /\ e.matched \in StagedCandidates(e.operation, e.multi_name)
        /\ e.multi_name = "0" => Cardinality(StagedCandidates(e.operation, "0")) = 1

----------------------------------------------------------------------------
\* the rows of the destination that made up the group a step of Phase B
\* handled, and the num of the newest of them
GroupRows(e) ==
  {a \in DOMAIN Kept : Kept[a].operation = e.operation
                        /\ last.shifted[a].multi_priority = e.old}

GroupSeq(e) == MaxOf({Kept[a].num : a \in GroupRows(e)})

\* the place of the group of the step e among the groups of its operation and
\* label, counted in ascending num of their newest row
SeqRank(e) ==
  Cardinality({u \in DOMAIN last.log :
                 /\ last.log[u].operation = e.operation
                 /\ last.log[u].multi_name = e.multi_name
                 /\ GroupSeq(last.log[u]) <= GroupSeq(e)})

\* C19: when several groups of the destination and several staged rows of one
\* operation carry the same label, the i-th of these groups in ascending num
\* of its newest row is matched with the i-th of these staged rows in rowid
\* order.
C19_FirstSeenPairing ==
  (Pasted /\ last.merge) =>
    \A t \in DOMAIN last.log :
      LET e == last.log[t]
          C == StagedCandidates(e.operation, e.multi_name)
      IN (Cardinality(C) >= 2 /\ SeqRank(e) <= Cardinality(C)) =>
           /\ e.matched \in C
           /\ Cardinality({k \in C : k <= e.matched}) = SeqRank(e)

----------------------------------------------------------------------------
\* the (operation, multi_priority) pairs of the history h
Pairs(h) == {<<h[k].operation, h[k].multi_priority>> : k \in DOMAIN h}

\* the row of the history h with the num n
RowAt(h, n) == h[CHOOSE k \in DOMAIN h : h[k].num = n]

\* C20: the rows a copy/paste stages.  Merging without a selection: one row
\* per (operation, multi_priority) of the source, the one with the greatest
\* num, in ascending num.  Otherwise: the source's rows whose num is selected
\* (all rows without a selection), every one of them, in ascending num.  In
\* both cases a staged row has all the columns of the source row.
C20_StagingSelection ==
  Pasted =>
    LET S == last.staged IN
    /\ \A k \in DOMAIN S : \A j \in DOMAIN S : k < j => S[k].num < S[j].num
    /\ \A k \in DOMAIN S :
         S[k].num \in Nums(PreSource) /\ S[k] = RowAt(PreSource, S[k].num)
    /\ IF last.merge /\ last.ops = {}
       THEN /\ Len(S) = Cardinality(Pairs(PreSource))
            /\ \A k \in DOMAIN S :
                 S[k] = Live(PreSource, S[k].operation, S[k].multi_priority)
       ELSE {S[k].num : k \in DOMAIN S} = TakenNums

\* a merge without a selection that stages one row for two rows of one pair
C20_Witness ==
  /\ Pasted /\ last.merge /\ last.ops = {}
  /\ Len(PreSource) = 2 /\ Len(last.staged) = 1
  /\ last.staged[1].num = 1

----------------------------------------------------------------------------
\* the num the first copied row gets: one above the rows that are kept
FirstCopiedNum == IF Kept = <<>> THEN 0 ELSE MaxOf(Nums(Kept)) + 1

\* C21: a merge removes from the destination exactly the rows whose num is at
\* or above the history_end the call found, keeps every other row at its num
\* with its payload, and puts the staged rows, in rowid order, at the num
\* values that follow the greatest num kept (from 0 when no row is kept).
C21_TrimThenAppend ==
  (Pasted /\ last.merge) =>
    LET H == history[last.dest] IN
    /\ Len(H) = Len(Kept) + Len(last.staged)
    /\ \A k \in DOMAIN Kept :
         H[k] = [Kept[k] EXCEPT !.multi_priority = H[k].multi_priority]
    /\ \A j \in DOMAIN PreDest :
         PreDest[j].num >= PreEnd(last.dest) =>
           \A k \in DOMAIN H : H[k].op_params # PreDest[j].op_params
    /\ \A k \in DOMAIN last.staged :
         /\ Added[k].num = FirstCopiedNum + k - 1
         /\ Added[k].op_params = last.staged[k].op_params
         /\ \A j \in DOMAIN Kept : Added[k].num > Kept[j].num

\* a merge onto a destination with one row below and one row above
\* history_end
C21_Witness ==
  /\ Pasted /\ last.merge
  /\ Len(PreDest) = 2 /\ Len(Kept) = 1
  /\ Len(last.staged) = 1
  /\ Len(history[last.dest]) = 2

----------------------------------------------------------------------------
\* the tables as the first statement of the paste finds them, after the
\* call of line 420
Written == WriteCurrentHistory(last.pre)

\* the rows of the destination below history_end in those tables
WrittenKept ==
  SelectSeq(Written.history[last.dest],
            LAMBDA r : r.num < Written.history_end[last.dest])

----------------------------------------------------------------------------
\* the columns of a history row that a copy carries over unchanged
Payload(r) ==
  [module |-> r.module, operation |-> r.operation, op_params |-> r.op_params,
   enabled |-> r.enabled, blendop_params |-> r.blendop_params,
   blendop_version |-> r.blendop_version, multi_name |-> r.multi_name]

\* C23: after a copy/paste on the selection without store failure, in
\* whatever order the selected images were handled, every row of
\* memory.style_items is a copy of a row of the source, the table is what the
\* copy/paste on the last destination alone leaves in it, and every
\* destination has the history, the masks and the history_end of a
\* copy/paste on it alone.
C23_NoStagingLeak ==
  (last.kind = "copy_sel" /\ last.ret = 0 /\ last.faildest = 0) =>
    /\ \A k \in DOMAIN style_items :
         \E j \in DOMAIN PreSource : Payload(style_items[k]) = Payload(PreSource[j])
    /\ style_items = Standalone(last.order[Len(last.order)]).style_items
    /\ \A d \in last.selected \ {last.imgid} :
         /\ history[d] = Standalone(d).history[d]
         /\ mask[d] = Standalone(d).mask[d]
         /\ history_end[d] = Standalone(d).history_end[d]

\* a merge onto two destinations, the higher image first, where the first
\* call left a staged row flagged as used and the second call staged and
\* flagged its own
C23_Witness ==
  /\ last.kind = "copy_sel" /\ last.ret = 0 /\ last.merge
  /\ Len(last.order) = 2 /\ last.order[1] > last.order[2]
  /\ Standalone(last.order[1]).style_items # <<>>
  /\ \E k \in DOMAIN Standalone(last.order[1]).style_items :
       Standalone(last.order[1]).style_items[k].num = -1
  /\ \E k \in DOMAIN style_items : style_items[k].num = -1
  /\ Len(style_items) = 1

----------------------------------------------------------------------------
\* C24: when every dt_history_load_and_apply of the loading thread has
\* returned and the deleting thread is not inside remove_preset_flag, no
\* image cache record is left with its write lock held.
C24_LockReleased == (job.pc = "idle" /\ del.pc # "flag") => wlock = {}

====
